---------------------------- MODULE Spec2Model ----------------------------
(***************************************************************************)
(* A model of sandbox/src/temp_renderer/renderer.rs: the Vulkan bootstrap  *)
(* of Renderer::new, its selection functions (physical device, memory     *)
(* type, swapchain parameters) and the fence-guarded submission protocol   *)
(* record_submit_commandbuffer, run against a mock device.                 *)
(***************************************************************************)
EXTENDS Integers, Sequences, FiniteSets, TLC

VARIABLES
    pdevices,              \* get_physical_device: the enumeration the instance reports
    selection,             \* get_physical_device: the outcome of each run, in order
    memory_req,            \* find_memorytype_index: memory_req.memory_type_bits
    memory_prop,           \* find_memorytype_index: memory types and their count
    flags,                 \* find_memorytype_index: the required property flags
    memorytype_index,      \* find_memorytype_index: its outcome
    surface_capabilities,  \* create_swapchain: what the surface reports
    present_modes,         \* create_swapchain: the supported present modes, in order
    overflow_checks,       \* create_swapchain: the build's integer overflow checks
    swapchain_create_info, \* create_swapchain: the negotiated parameters
    new_pc,                \* Renderer::new: index in BootOrder of the next step
    depth_pc,              \* create_depth_image: index in DepthImageOrder of the next step
    boot,                  \* Renderer::new: the steps that have succeeded, in order
    locals,                \* Renderer::new: the handles its local variables hold
    renderer,              \* the Renderer value Renderer::new returned, if any
    panicked,              \* the panic message once an unwrap()/expect() failed
    fence_state,           \* device: each fence, "none" | "signaled" | "unsignaled"
    cb_state,              \* device: each command buffer's lifecycle state
    cb_commands,           \* device: the commands recorded in each command buffer
    pending,               \* device: queue submissions accepted and not yet completed
    depth,                 \* device: the depth image, its memory, binding, layout, view
    frame,                 \* record_submit_commandbuffer: each thread's call frame
    ncalls,                \* record_submit_commandbuffer: calls each thread has returned from
    log                    \* mock device: the calls each thread issued, in order

fn_vars == <<pdevices, selection, memory_req, memory_prop, flags, memorytype_index,
             surface_capabilities, present_modes, overflow_checks,
             swapchain_create_info>>

new_vars == <<new_pc, depth_pc, boot, locals, renderer>>
device_vars == <<fence_state, cb_state, cb_commands, pending, depth>>
submit_vars == <<frame, ncalls, log>>

vars == <<fn_vars, new_vars, panicked, device_vars, submit_vars>>

\* A value for a variable that holds nothing in the running specification.
Unset == "unset"

\* Option<T>; also the outcome of a function that has not run (None) or has
\* returned v (Some(v)).
None == [some |-> FALSE]
Some(v) == [some |-> TRUE, value |-> v]

-----------------------------------------------------------------------------
(* Bit flags, as the unsigned integers ash's vk::Flags types wrap.          *)

RECURSIVE BitAnd(_, _)
BitAnd(a, b) ==
    IF a = 0 \/ b = 0 THEN 0
    ELSE (IF a % 2 = 1 /\ b % 2 = 1 THEN 1 ELSE 0) + 2 * BitAnd(a \div 2, b \div 2)

RECURSIVE Pow2(_)
Pow2(n) == IF n = 0 THEN 1 ELSE 2 * Pow2(n - 1)

\* vk flags' contains(): every bit of `other` is set in `self`.
Contains(self, other) == BitAnd(self, other) = other

-----------------------------------------------------------------------------
(* get_physical_device                                                      *)

MaxDevices == 2
MaxFamilies == 2

QUEUE_GRAPHICS == 1

\* The queue flags the model draws from: COMPUTE alone (2), and
\* GRAPHICS | COMPUTE (3), which contains GRAPHICS without being equal to it.
QueueFlagValues == {2, QUEUE_GRAPHICS + 2}

\* A queue family: its queue_flags, and what get_physical_device_surface_support
\* answers for it on the given surface (a query that fails instead is a panic of
\* Renderer::new, in GetPhysicalDevice).
QueueFamily == [queue_flags : QueueFlagValues, surface_support : BOOLEAN]

SeqsUpTo(S, n) == UNION {[1..k -> S] : k \in 0..n}

\* A physical device is its list of queue families; the enumeration is a list
\* of devices.
Enumerations == SeqsUpTo(SeqsUpTo(QueueFamily, MaxFamilies), MaxDevices)

\* The closure with the surface-support query left out.
supports_graphic_only(info) == Contains(info.queue_flags, QUEUE_GRAPHICS)

\* Lines 243-248.
supports_graphic_and_surface(info) ==
    Contains(info.queue_flags, QUEUE_GRAPHICS) /\ info.surface_support

\* The inner find_map: the first family index (0-based, as enumerate() counts)
\* of `families`, from position i on, that supports graphics and the surface.
RECURSIVE FindFamily(_, _, _)
FindFamily(pdevice, families, i) ==
    IF i > Len(families) THEN None
    ELSE IF supports_graphic_and_surface(families[i])
         THEN Some([pdevice |-> pdevice, index |-> i - 1])
         ELSE FindFamily(pdevice, families, i + 1)

\* The outer find_map over the devices, from position d on.
RECURSIVE FindDevice(_, _)
FindDevice(pds, d) ==
    IF d > Len(pds) THEN None
    ELSE LET r == FindFamily(d, pds[d], 1)
         IN  IF r.some THEN r ELSE FindDevice(pds, d + 1)

\* get_physical_device: the pair found, or the panic of expect().
get_physical_device(pds) ==
    LET r == FindDevice(pds, 1)
    IN  IF r.some
        THEN [panic |-> FALSE, pdevice |-> r.value.pdevice,
              queue_family_index |-> r.value.index]
        ELSE [panic |-> TRUE, message |-> "Couldn't find suitable device."]

SelectInit ==
    /\ pdevices \in Enumerations
    /\ selection = <<>>

\* A run of get_physical_device on the enumeration; the second run sees the
\* same enumeration as the first.
SelectDevice ==
    /\ Len(selection) < 2
    /\ selection' = Append(selection, get_physical_device(pdevices))
    /\ UNCHANGED pdevices

\* What the claims say of get_physical_device, stated on the enumeration itself.
GraphicsCapable(family) == family.queue_flags % 2 = 1
SuitablePairs(pds) ==
    {q \in (1..Len(pds)) \X (0..MaxFamilies) :
        /\ q[2] < Len(pds[q[1]])
        /\ GraphicsCapable(pds[q[1]][q[2] + 1])
        /\ pds[q[1]][q[2] + 1].surface_support}
Precedes(p, q) == p[1] < q[1] \/ (p[1] = q[1] /\ p[2] < q[2])

-----------------------------------------------------------------------------
(* find_memorytype_index                                                    *)

\* The length of the memory_types array (VK_MAX_MEMORY_TYPES in the API, scaled
\* down); memory_type_count says how many of its entries are reported.
MaxMemoryTypes == 3

MEMORY_DEVICE_LOCAL == 1

\* Property flags drawn from: combinations of DEVICE_LOCAL (1) and HOST_VISIBLE (2).
PropertyFlagValues == 0..3

MemoryProperties ==
    [memory_type_count : 0..MaxMemoryTypes,
     memory_types : [1..MaxMemoryTypes -> PropertyFlagValues]]

MemoryTypeBits == 0..(Pow2(MaxMemoryTypes) - 1)

\* The closure with an intersection test (any required flag) for the superset test.
memorytype_matches_any(index, req, prop, fl) ==
    /\ BitAnd(Pow2(index), req) # 0
    /\ (fl = 0 \/ BitAnd(prop.memory_types[index + 1], fl) # 0)

\* The closure of find(): index is 0-based, memory_types is 1-based here.
memorytype_matches(index, req, prop, fl) ==
    /\ BitAnd(Pow2(index), req) # 0
    /\ BitAnd(prop.memory_types[index + 1], fl) = fl

\* iter().enumerate().find() over memory_types[..memory_type_count].
RECURSIVE FindMemorytype(_, _, _, _)
FindMemorytype(index, req, prop, fl) ==
    IF index >= prop.memory_type_count THEN None
    ELSE IF memorytype_matches(index, req, prop, fl) THEN Some(index)
    ELSE FindMemorytype(index + 1, req, prop, fl)

find_memorytype_index(req, prop, fl) == FindMemorytype(0, req, prop, fl)

MemInit ==
    /\ memory_req \in MemoryTypeBits
    /\ memory_prop \in MemoryProperties
    /\ flags \in PropertyFlagValues
    /\ memorytype_index = None

FindMemorytypeIndex ==
    /\ ~memorytype_index.some
    /\ memorytype_index' = Some(find_memorytype_index(memory_req, memory_prop, flags))
    /\ UNCHANGED <<memory_req, memory_prop, flags>>

\* What the claims say of find_memorytype_index, stated bit by bit.
BitSet(n, k) == (n \div Pow2(k)) % 2 = 1
HasEveryFlag(have, required) == \A k \in 0..1 : BitSet(required, k) => BitSet(have, k)
MatchingTypes(req, prop, fl) ==
    {i \in 0..(prop.memory_type_count - 1) :
        BitSet(req, i) /\ HasEveryFlag(prop.memory_types[i + 1], fl)}

\* C5: find_memorytype_index returns the lowest index below memory_type_count
\* whose bit is set in the requirement mask and whose property flags contain
\* every required flag, and returns None exactly when there is no such index.
C5_LowestMatchingType ==
    memorytype_index.some =>
        LET r == memorytype_index.value
            matching == MatchingTypes(memory_req, memory_prop, flags)
        IN  /\ r.some <=> matching # {}
            /\ r.some => r.value \in matching /\ \A i \in matching : r.value <= i

\* Index 2 is returned: its bit is set and its flags contain both required
\* flags, while index 0 has the bit without all the flags and index 1 has the
\* flags without the bit.
C5_Witness ==
    /\ memorytype_index.some
    /\ memorytype_index.value = Some(2)
    /\ flags = 3
    /\ BitSet(memory_req, 0) /\ ~BitSet(memory_req, 1)
    /\ memory_prop.memory_types[1] = 1
    /\ memory_prop.memory_types[2] = 3

-----------------------------------------------------------------------------
(* create_swapchain: the negotiation of the swapchain parameters            *)

\* std::u32::MAX: the largest min_image_count, and, as current_extent.width,
\* the surface's "extent undefined" marker. TLC's integers are 32-bit signed, so
\* the u32 of the program is scaled to 16 bits: 2^16 - 1 stands for 2^32 - 1.
U32_MAX == 65535

FALLBACK_WIDTH == 1920
FALLBACK_HEIGHT == 1080

\* The largest small image count the model draws (besides U32_MAX).
MaxImageCount == 2
\* The longest list of present modes the surface reports.
MaxPresentModes == 2

ImageCounts == 0..MaxImageCount \cup {U32_MAX}
Extents == [width : {800, U32_MAX}, height : {600, U32_MAX}]

TRANSFORM_IDENTITY == 1
\* supported_transforms: IDENTITY (1), ROTATE_90 (2), or both; current_transform
\* is one of the two.
SupportedTransforms == 1..3
CurrentTransforms == {TRANSFORM_IDENTITY, 2}

PresentModes == {"IMMEDIATE", "MAILBOX", "FIFO"}

SurfaceCapabilities ==
    [min_image_count : ImageCounts, max_image_count : ImageCounts,
     current_extent : Extents,
     supported_transforms : SupportedTransforms,
     current_transform : CurrentTransforms]

\* min_image_count + 1 on u32: a panic where the build checks overflow
\* (debug profile), the wrapped value where it does not (release profile).
AddOverflows(a, b) == a + b > U32_MAX
WrappingAdd(a, b) == (a + b) % (U32_MAX + 1)

\* The count without the clamp to max_image_count.
desired_image_count_unclamped(caps) == WrappingAdd(caps.min_image_count, 1)

\* Lines 294-299.
desired_image_count(caps) ==
    LET desired == WrappingAdd(caps.min_image_count, 1)
    IN  IF caps.max_image_count > 0 /\ desired > caps.max_image_count
        THEN caps.max_image_count
        ELSE desired

\* The extent without the fallback arm of the match.
surface_resolution_passthrough(caps) == caps.current_extent

\* Lines 300-306: the match is on the width alone.
surface_resolution(caps) ==
    IF caps.current_extent.width = U32_MAX
    THEN [width |-> FALLBACK_WIDTH, height |-> FALLBACK_HEIGHT]
    ELSE caps.current_extent

\* The surface's current transform taken whether or not IDENTITY is supported.
pre_transform_current(caps) == caps.current_transform

\* Lines 307-314.
pre_transform(caps) ==
    IF Contains(caps.supported_transforms, TRANSFORM_IDENTITY)
    THEN TRANSFORM_IDENTITY
    ELSE caps.current_transform

\* iter().cloned().find(|&mode| mode == MAILBOX), from position i on.
RECURSIVE FindMode(_, _, _)
FindMode(modes, wanted, i) ==
    IF i > Len(modes) THEN None
    ELSE IF modes[i] = wanted THEN Some(modes[i])
    ELSE FindMode(modes, wanted, i + 1)

UnwrapOr(opt, default) == IF opt.some THEN opt.value ELSE default

\* The first supported mode for the search for MAILBOX.
present_mode_first(modes) == IF Len(modes) > 0 THEN modes[1] ELSE "FIFO"

\* Lines 318-322.
present_mode(modes) == UnwrapOr(FindMode(modes, "MAILBOX", 1), "FIFO")

\* create_swapchain up to the SwapchainCreateInfoKHR it builds: a panic when the
\* checked addition overflows, the negotiated parameters otherwise.
create_swapchain(caps, modes, checks) ==
    IF checks /\ AddOverflows(caps.min_image_count, 1)
    THEN [panic |-> TRUE, message |-> "attempt to add with overflow"]
    ELSE [panic |-> FALSE,
          min_image_count |-> desired_image_count(caps),
          image_extent |-> surface_resolution(caps),
          pre_transform |-> pre_transform(caps),
          present_mode |-> present_mode(modes)]

SwapInit ==
    /\ surface_capabilities \in SurfaceCapabilities
    /\ present_modes \in SeqsUpTo(PresentModes, MaxPresentModes)
    /\ overflow_checks \in BOOLEAN
    /\ swapchain_create_info = None

CreateSwapchain ==
    /\ ~swapchain_create_info.some
    /\ swapchain_create_info' =
           Some(create_swapchain(surface_capabilities, present_modes, overflow_checks))
    /\ UNCHANGED <<surface_capabilities, present_modes, overflow_checks>>

\* The SwapchainCreateInfoKHR of a create_swapchain that has run and not panicked.
Negotiated == swapchain_create_info.some /\ ~swapchain_create_info.value.panic

\* C6: with desired = min + 1, the negotiated image count is max when max > 0 and
\* desired > max, and desired otherwise.
C6_ImageCount ==
    Negotiated =>
        LET min == surface_capabilities.min_image_count
            max == surface_capabilities.max_image_count
            n == swapchain_create_info.value.min_image_count
        IN  n = IF max > 0 /\ min + 1 > max THEN max ELSE min + 1

\* C7 as stated: whenever max > 0, min <= n <= max.
C7_WithinMinMax ==
    (Negotiated /\ surface_capabilities.max_image_count > 0) =>
        LET n == swapchain_create_info.value.min_image_count
        IN  /\ surface_capabilities.min_image_count <= n
            /\ n <= surface_capabilities.max_image_count

\* C7 as amended: whenever max > 0, n <= max; min <= n as well when min <= max
\* and min < u32::MAX; and at min = u32::MAX, where min + 1 wraps around in a
\* build without overflow checks, n = 0.
C7_WithinMinMaxWhenOrdered ==
    (Negotiated /\ surface_capabilities.max_image_count > 0) =>
        LET min == surface_capabilities.min_image_count
            max == surface_capabilities.max_image_count
            n == swapchain_create_info.value.min_image_count
        IN  /\ n <= max
            /\ (min <= max /\ min < U32_MAX) => min <= n
            /\ min = U32_MAX => n = 0

\* The clamp has acted: min + 1 exceeds a nonzero max, and min <= max.
C7_Witness ==
    /\ Negotiated
    /\ surface_capabilities.min_image_count = 1
    /\ surface_capabilities.max_image_count = 1
    /\ swapchain_create_info.value.min_image_count = 1

ModeSet(modes) == {modes[i] : i \in 1..Len(modes)}

\* C9: the present mode is MAILBOX when the surface lists it and FIFO otherwise,
\* whether or not FIFO is listed; no other mode is chosen.
C9_PresentMode ==
    Negotiated =>
        swapchain_create_info.value.present_mode =
            IF "MAILBOX" \in ModeSet(present_modes) THEN "MAILBOX" ELSE "FIFO"

\* FIFO is chosen although the surface lists only IMMEDIATE.
C9_Witness ==
    /\ Negotiated
    /\ present_modes = <<"IMMEDIATE">>
    /\ swapchain_create_info.value.present_mode = "FIFO"

\* C14: the pre-transform is IDENTITY when the IDENTITY bit is among the
\* surface's supported transforms, and the surface's current transform otherwise.
C14_PreTransform ==
    Negotiated =>
        swapchain_create_info.value.pre_transform =
            IF BitSet(surface_capabilities.supported_transforms, 0)
            THEN TRANSFORM_IDENTITY
            ELSE surface_capabilities.current_transform

\* A surface that supports a rotation only and is currently rotated: the
\* rotation is chosen.
C14_Witness ==
    /\ Negotiated
    /\ ~BitSet(surface_capabilities.supported_transforms, 0)
    /\ surface_capabilities.current_transform # TRANSFORM_IDENTITY
    /\ swapchain_create_info.value.pre_transform =
           surface_capabilities.current_transform

-----------------------------------------------------------------------------
(* The mock device and the handles of Renderer::new                         *)

\* The two threads of the program: "setup" runs Renderer::new and owns the setup
\* command buffer, "draw" owns the draw command buffer.
Threads == {"setup", "draw"}

Fences == {"draw_commands_reuse_fence", "setup_commands_reuse_fence"}
CommandBuffers == {"setup_command_buffer", "draw_command_buffer"}

CommandBufferOf(t) ==
    IF t = "setup" THEN "setup_command_buffer" ELSE "draw_command_buffer"
FenceOf(t) ==
    IF t = "setup" THEN "setup_commands_reuse_fence" ELSE "draw_commands_reuse_fence"

\* The most calls of record_submit_commandbuffer one thread makes.
MaxCalls == 2

\* The fields of struct Renderer.
RendererFields ==
    {"entry", "instance", "debug_utils_loader", "surface_loader", "swapchain_loader",
     "pdevice", "device", "debug_callback", "surface", "command_pool",
     "present_image_views", "depth_image", "depth_image_view", "depth_image_memory",
     "setup_commands_reuse_fence", "draw_commands_reuse_fence",
     "rendering_complete_semaphore", "present_complete_semaphore"}

\* The frame of a thread that is not inside record_submit_commandbuffer.
IdleFrame ==
    [pc |-> "idle", command_buffer |-> Unset, fence |-> Unset, wait_mask |-> <<>>,
     wait_semaphores |-> <<>>, signal_semaphores |-> <<>>, f |-> Unset]

\* A command buffer is in flight from its queue submission until the device
\* completes it (and signals the submission's fence).
InFlight(cb) == \E s \in pending : s.command_buffer = cb

MainInit ==
    /\ new_pc = 1
    /\ depth_pc = 1
    /\ boot = <<>>
    /\ locals = {}
    /\ renderer = None
    /\ panicked = "none"
    /\ fence_state = [f \in Fences |-> "none"]
    /\ cb_state = [b \in CommandBuffers |-> "unallocated"]
    /\ cb_commands = [b \in CommandBuffers |-> <<>>]
    /\ pending = {}
    /\ depth = [image |-> FALSE, memory |-> FALSE, bound |-> 0,
                layout |-> "UNDEFINED", view |-> FALSE]
    /\ frame = [t \in Threads |-> IdleFrame]
    /\ ncalls = [t \in Threads |-> 0]
    /\ log = [t \in Threads |-> <<>>]

\* The variables of the function specifications while none of them runs.
SelectIdle == pdevices = Unset /\ selection = <<>>
MemIdle ==
    /\ memory_req = Unset /\ memory_prop = Unset /\ flags = Unset
    /\ memorytype_index = None
SwapIdle ==
    /\ surface_capabilities = Unset /\ present_modes = Unset
    /\ overflow_checks = Unset /\ swapchain_create_info = None

\* The message of unwrap() on an Err.
UnwrapFailed == "called Result::unwrap() on an Err value"

\* unwrap()/expect() on an Err or a None: the thread panics, and nothing of the
\* program runs after it.
Panic(message) ==
    /\ panicked' = message
    /\ UNCHANGED <<fn_vars, new_vars, device_vars, submit_vars>>

-----------------------------------------------------------------------------
(* record_submit_commandbuffer                                              *)

\* The statements with the command buffer reset before the fence reset.
ProtocolOrderBufferFirst ==
    <<"wait_for_fences", "reset_command_buffer", "reset_fences",
      "begin_command_buffer", "f", "end_command_buffer", "queue_submit">>

\* The statements without the fence reset.
ProtocolOrderNoFenceReset ==
    <<"wait_for_fences", "reset_command_buffer", "begin_command_buffer", "f",
      "end_command_buffer", "queue_submit">>

\* The statements of record_submit_commandbuffer, in program order; frame[t].pc
\* names the statement thread t executes next.
ProtocolOrder ==
    <<"wait_for_fences", "reset_fences", "reset_command_buffer",
      "begin_command_buffer", "f", "end_command_buffer", "queue_submit">>

\* The statement after `call`; "return" after the last one.
RECURSIVE IndexOf(_, _, _)
IndexOf(seq, x, i) ==
    IF i > Len(seq) THEN 0 ELSE IF seq[i] = x THEN i ELSE IndexOf(seq, x, i + 1)

After(call) ==
    LET i == IndexOf(ProtocolOrder, call, 1)
    IN  IF i < Len(ProtocolOrder) THEN ProtocolOrder[i + 1] ELSE "return"

\* A thread going on to `call` whether or not a statement has failed before.
AtIgnoringFailure(t, call) == frame[t].pc = call

At(t, call) == panicked = "none" /\ frame[t].pc = call

\* The mock device's record of a call.
Logged(t, call, args) ==
    log' = [log EXCEPT ![t] = Append(@, [call |-> call, args |-> args])]

\* Control passes to the next statement; after the last one the call returns.
Advance(t, call) ==
    IF After(call) = "return"
    THEN /\ frame' = [frame EXCEPT ![t] = IdleFrame]
         /\ ncalls' = [ncalls EXCEPT ![t] = @ + 1]
    ELSE /\ frame' = [frame EXCEPT ![t].pc = After(call)]
         /\ UNCHANGED ncalls

\* The wait returning without the fence being signaled (a zero timeout whose
\* TIMEOUT result is taken for success).
WaitForFencesNoBlock(t) ==
    /\ At(t, "wait_for_fences")
    /\ Logged(t, "wait_for_fences", <<frame[t].fence>>)
    /\ Advance(t, "wait_for_fences")
    /\ UNCHANGED <<fn_vars, new_vars, panicked, device_vars>>

\* Lines 506-508: returns once the fence is signaled (the timeout is u64::MAX);
\* an Err panics.
WaitForFences(t) ==
    /\ At(t, "wait_for_fences")
    /\ \/ /\ fence_state[frame[t].fence] = "signaled"
          /\ Logged(t, "wait_for_fences", <<frame[t].fence>>)
          /\ Advance(t, "wait_for_fences")
          /\ UNCHANGED <<fn_vars, new_vars, panicked, device_vars>>
       \/ Panic("Wait for fence failed.")

\* Lines 510-512.
ResetFences(t) ==
    /\ At(t, "reset_fences")
    /\ \/ /\ fence_state' = [fence_state EXCEPT ![frame[t].fence] = "unsignaled"]
          /\ Logged(t, "reset_fences", <<frame[t].fence>>)
          /\ Advance(t, "reset_fences")
          /\ UNCHANGED <<fn_vars, new_vars, panicked, cb_state, cb_commands, pending,
                         depth>>
       \/ Panic("Reset fences failed.")

\* Lines 514-519: RELEASE_RESOURCES, the buffer goes back to its initial state.
ResetCommandBuffer(t) ==
    /\ At(t, "reset_command_buffer")
    /\ \/ /\ cb_state' = [cb_state EXCEPT ![frame[t].command_buffer] = "initial"]
          /\ cb_commands' = [cb_commands EXCEPT ![frame[t].command_buffer] = <<>>]
          /\ Logged(t, "reset_command_buffer", <<frame[t].command_buffer>>)
          /\ Advance(t, "reset_command_buffer")
          /\ UNCHANGED <<fn_vars, new_vars, panicked, fence_state, pending, depth>>
       \/ Panic("Reset command buffer failed.")

\* Lines 521-526: ONE_TIME_SUBMIT.
BeginCommandBuffer(t) ==
    /\ At(t, "begin_command_buffer")
    /\ \/ /\ cb_state' = [cb_state EXCEPT ![frame[t].command_buffer] = "recording"]
          /\ Logged(t, "begin_command_buffer", <<frame[t].command_buffer>>)
          /\ Advance(t, "begin_command_buffer")
          /\ UNCHANGED <<fn_vars, new_vars, panicked, fence_state, cb_commands,
                         pending, depth>>
       \/ Panic("Begin commandbuffer")

\* The closure recording its barrier twice.
RecordedTwice(f) ==
    IF f = "layout_transition"
    THEN <<[cmd |-> "cmd_pipeline_barrier", image |-> "depth_image",
            old_layout |-> "UNDEFINED",
            new_layout |-> "DEPTH_STENCIL_ATTACHMENT_OPTIMAL"],
           [cmd |-> "cmd_pipeline_barrier", image |-> "depth_image",
            old_layout |-> "UNDEFINED",
            new_layout |-> "DEPTH_STENCIL_ATTACHMENT_OPTIMAL"]>>
    ELSE <<[cmd |-> f]>>

\* What the callback records. optimize_depth_image_layout's closure (lines
\* 465-490) records one pipeline barrier on the depth image; any other caller's
\* closure stands for its own commands.
Recorded(f) ==
    IF f = "layout_transition"
    THEN <<[cmd |-> "cmd_pipeline_barrier", image |-> "depth_image",
            old_layout |-> "UNDEFINED",
            new_layout |-> "DEPTH_STENCIL_ATTACHMENT_OPTIMAL"]>>
    ELSE <<[cmd |-> f]>>

\* Line 527: f(device, command_buffer). The cmd_* calls return nothing, so
\* this statement cannot fail.
Callback(t) ==
    /\ At(t, "f")
    /\ cb_commands' = [cb_commands EXCEPT
                          ![frame[t].command_buffer] = @ \o Recorded(frame[t].f)]
    /\ Logged(t, "f", <<frame[t].command_buffer>>)
    /\ Advance(t, "f")
    /\ UNCHANGED <<fn_vars, new_vars, panicked, fence_state, cb_state, pending, depth>>

\* Lines 528-530.
EndCommandBuffer(t) ==
    /\ At(t, "end_command_buffer")
    /\ \/ /\ cb_state' = [cb_state EXCEPT ![frame[t].command_buffer] = "executable"]
          /\ Logged(t, "end_command_buffer", <<frame[t].command_buffer>>)
          /\ Advance(t, "end_command_buffer")
          /\ UNCHANGED <<fn_vars, new_vars, panicked, fence_state, cb_commands,
                         pending, depth>>
       \/ Panic("End commandbuffer")

\* Every submission completing on the setup fence, whichever fence the caller
\* passed.
SubmitFenceOfSetup(t) == "setup_commands_reuse_fence"

\* The fence handed to vkQueueSubmit (line 541).
SubmitFence(t) == frame[t].fence

\* Lines 532-542: one SubmitInfo holding the command buffer, with the call's
\* semaphores and wait mask, and the reuse fence as the completion fence.
QueueSubmit(t) ==
    /\ At(t, "queue_submit")
    /\ \/ /\ cb_state' = [cb_state EXCEPT ![frame[t].command_buffer] = "pending"]
          /\ pending' = pending \cup
                 {[command_buffer |-> frame[t].command_buffer,
                   fence |-> SubmitFence(t),
                   commands |-> cb_commands[frame[t].command_buffer]]}
          /\ Logged(t, "queue_submit",
                    <<frame[t].command_buffer, SubmitFence(t), frame[t].wait_semaphores,
                      frame[t].wait_mask, frame[t].signal_semaphores>>)
          /\ Advance(t, "queue_submit")
          /\ UNCHANGED <<fn_vars, new_vars, panicked, fence_state, cb_commands, depth>>
       \/ Panic("queue submit failed.")

\* The layout the depth image has after the device has executed `commands`.
RECURSIVE LayoutAfter(_, _, _)
LayoutAfter(layout, commands, i) ==
    IF i > Len(commands) THEN layout
    ELSE LayoutAfter(IF commands[i].cmd = "cmd_pipeline_barrier"
                     THEN commands[i].new_layout ELSE layout,
                     commands, i + 1)

\* The device completes an accepted submission: it has executed the commands,
\* a ONE_TIME_SUBMIT buffer becomes invalid, and the fence is signaled.
DeviceCompletes(s) ==
    /\ panicked = "none"
    /\ s \in pending
    /\ pending' = pending \ {s}
    /\ cb_state' = [cb_state EXCEPT ![s.command_buffer] = "invalid"]
    /\ fence_state' = [fence_state EXCEPT ![s.fence] = "signaled"]
    /\ depth' = [depth EXCEPT !.layout = LayoutAfter(@, s.commands, 1)]
    /\ UNCHANGED <<fn_vars, new_vars, panicked, cb_commands, submit_vars>>

\* A caller outside Renderer::new (the frame loop) calls the protocol on its
\* thread's own buffer and fence; the draw thread passes the two semaphores.
StartCall(t) ==
    /\ panicked = "none"
    /\ renderer.some
    /\ frame[t].pc = "idle"
    /\ ncalls[t] < MaxCalls
    /\ frame' = [frame EXCEPT ![t] =
           [pc |-> ProtocolOrder[1],
            command_buffer |-> CommandBufferOf(t),
            fence |-> FenceOf(t),
            wait_mask |-> IF t = "draw" THEN <<"COLOR_ATTACHMENT_OUTPUT">> ELSE <<>>,
            wait_semaphores |->
                IF t = "draw" THEN <<"present_complete_semaphore">> ELSE <<>>,
            signal_semaphores |->
                IF t = "draw" THEN <<"rendering_complete_semaphore">> ELSE <<>>,
            f |-> t]]
    /\ UNCHANGED <<fn_vars, new_vars, panicked, device_vars, ncalls, log>>

Submit(t) ==
    \/ StartCall(t)
    \/ WaitForFences(t)
    \/ ResetFences(t)
    \/ ResetCommandBuffer(t)
    \/ BeginCommandBuffer(t)
    \/ Callback(t)
    \/ EndCommandBuffer(t)
    \/ QueueSubmit(t)

-----------------------------------------------------------------------------
(* Renderer::new                                                            *)

\* Renderer::new creating the two fences only after the layout transition.
BootOrderFencesLast ==
    <<"create_instance", "create_debug_call_back", "create_surface",
      "get_physical_device", "create_device", "get_physical_device_surface_formats",
      "create_swapchain", "create_command_pool", "create_command_buffers",
      "create_present_image_views", "create_depth_image",
      "optimize_depth_image_layout", "create_fence_draw", "create_fence_setup",
      "create_depth_image_view", "create_semaphore_present_complete",
      "create_semaphore_rendering_complete", "Self">>

\* The statements of Renderer::new that call into the API, in program order.
BootOrder ==
    <<"create_instance", "create_debug_call_back", "create_surface",
      "get_physical_device", "create_device", "get_physical_device_surface_formats",
      "create_swapchain", "create_command_pool", "create_command_buffers",
      "create_present_image_views", "create_depth_image",
      "create_fence_draw", "create_fence_setup", "optimize_depth_image_layout",
      "create_depth_image_view", "create_semaphore_present_complete",
      "create_semaphore_rendering_complete", "Self">>

\* create_depth_image returning before it binds the memory.
DepthImageOrderNoBind == <<"create_image", "find_memorytype_index", "allocate_memory">>

\* create_depth_image binding the memory a second time.
DepthImageOrderBindTwice ==
    <<"create_image", "find_memorytype_index", "allocate_memory", "bind_image_memory",
      "bind_image_memory">>

\* The statements of create_depth_image that call into the API, in program order.
DepthImageOrder ==
    <<"create_image", "find_memorytype_index", "allocate_memory", "bind_image_memory">>

\* Renderer::new going on to `step` whether or not a statement has failed (an
\* error that is logged and ignored).
NewAtIgnoringFailure(step) ==
    /\ new_pc <= Len(BootOrder)
    /\ BootOrder[new_pc] = step

\* Renderer::new is about to execute `step`.
NewAt(step) ==
    /\ panicked = "none"
    /\ new_pc <= Len(BootOrder)
    /\ BootOrder[new_pc] = step

\* `step` succeeded: its results are bound to local variables.
Succeed(step, handles) ==
    /\ boot' = Append(boot, step)
    /\ locals' = locals \cup handles
    /\ new_pc' = new_pc + 1

\* The statements that only create an object: what each binds, and the message
\* of its unwrap()/expect().
ObjectSteps ==
    {"create_instance", "create_debug_call_back", "create_surface", "create_device",
     "get_physical_device_surface_formats", "create_command_pool",
     "create_present_image_views", "create_semaphore_present_complete",
     "create_semaphore_rendering_complete"}

HandlesOf(step) ==
    CASE step = "create_instance" -> {"entry", "instance"}
      [] step = "create_debug_call_back" -> {"debug_utils_loader", "debug_callback"}
      [] step = "create_surface" -> {"surface", "surface_loader"}
      [] step = "create_device" -> {"device", "present_queue"}
      [] step = "get_physical_device_surface_formats" -> {"surface_format"}
      [] step = "create_command_pool" -> {"command_pool"}
      [] step = "create_present_image_views" -> {"present_image_views"}
      [] step = "create_semaphore_present_complete" -> {"present_complete_semaphore"}
      [] step = "create_semaphore_rendering_complete" ->
             {"rendering_complete_semaphore"}

CreateObject(step) ==
    /\ step \in ObjectSteps
    /\ NewAt(step)
    /\ \/ /\ Succeed(step, HandlesOf(step))
          /\ UNCHANGED <<fn_vars, depth_pc, renderer, panicked, device_vars, submit_vars>>
       \/ Panic(IF step = "create_instance" THEN "Instance creation error"
                ELSE UnwrapFailed)

\* The reports Renderer::new meets in the program's specification: enough of
\* them for each function to return and to panic (the function specifications
\* cover the functions on all their inputs).
BootEnumerations == SeqsUpTo(SeqsUpTo(QueueFamily, 1), 1)
BootSurfaceCapabilities ==
    [min_image_count : {1, U32_MAX}, max_image_count : {0},
     current_extent : {[width |-> 800, height |-> 600]},
     supported_transforms : {TRANSFORM_IDENTITY},
     current_transform : {TRANSFORM_IDENTITY}]
BootPresentModes == {<<"FIFO">>}
BootMemoryProperties ==
    [memory_type_count : 0..1, memory_types : [1..1 -> {0, MEMORY_DEVICE_LOCAL}]]

\* Lines 75-76: the enumeration is whatever the instance reports.
GetPhysicalDevice ==
    /\ NewAt("get_physical_device")
    /\ \/ \E pds \in BootEnumerations :
            LET r == get_physical_device(pds)
            IN  IF r.panic
                THEN Panic(r.message)
                ELSE /\ Succeed("get_physical_device", {"pdevice", "queue_family_index"})
                     /\ UNCHANGED <<fn_vars, depth_pc, renderer, panicked, device_vars,
                                    submit_vars>>
       \/ Panic("Physical device error")
       \* Line 248: a surface-support query that returns an Err.
       \/ Panic(UnwrapFailed)

\* Lines 83-90: the capabilities and present modes are whatever the surface
\* reports; the device may reject the negotiated parameters.
NewSwapchain ==
    /\ NewAt("create_swapchain")
    /\ \/ \E caps \in BootSurfaceCapabilities, modes \in BootPresentModes,
             checks \in BOOLEAN :
            LET r == create_swapchain(caps, modes, checks)
            IN  IF r.panic
                THEN Panic(r.message)
                ELSE /\ Succeed("create_swapchain",
                                {"swapchain_loader", "swapchain", "surface_resolution"})
                     /\ UNCHANGED <<fn_vars, depth_pc, renderer, panicked, device_vars,
                                    submit_vars>>
       \/ Panic(UnwrapFailed)

\* Lines 93-95: two primary command buffers, [0] for setup and [1] for draw.
CreateCommandBuffers ==
    /\ NewAt("create_command_buffers")
    /\ \/ /\ Succeed("create_command_buffers", CommandBuffers)
          /\ cb_state' = [b \in CommandBuffers |-> "initial"]
          /\ UNCHANGED <<fn_vars, depth_pc, renderer, panicked, fence_state, cb_commands,
                         pending, depth, submit_vars>>
       \/ Panic(UnwrapFailed)

\* create_depth_image is about to execute `step`.
DepthAt(step) ==
    /\ NewAt("create_depth_image")
    /\ depth_pc <= Len(DepthImageOrder)
    /\ DepthImageOrder[depth_pc] = step

\* A statement of create_depth_image succeeded. After the last one the function
\* returns (depth_image, depth_image_memory) to Renderer::new (line 447).
DepthSucceed(step) ==
    /\ depth_pc' = depth_pc + 1
    /\ IF depth_pc = Len(DepthImageOrder)
       THEN /\ boot' = boot \o <<step, "create_depth_image">>
            /\ locals' = locals \cup {"depth_image", "depth_image_memory"}
            /\ new_pc' = new_pc + 1
       ELSE /\ boot' = Append(boot, step)
            /\ UNCHANGED <<locals, new_pc>>

\* What the device holds of the depth image after `step` succeeded.
DepthAfter(step) ==
    CASE step = "create_image" -> [depth EXCEPT !.image = TRUE]
      [] step = "allocate_memory" -> [depth EXCEPT !.memory = TRUE]
      [] step = "bind_image_memory" -> [depth EXCEPT !.bound = @ + 1]
      [] OTHER -> depth

\* Lines 427, 439-441, 443-445: a device call, panicking on an Err.
DepthDeviceCall(step) ==
    /\ step \in {"create_image", "allocate_memory", "bind_image_memory"}
    /\ DepthAt(step)
    /\ \/ /\ DepthSucceed(step)
          /\ depth' = DepthAfter(step)
          /\ UNCHANGED <<fn_vars, renderer, panicked, fence_state, cb_state,
                         cb_commands, pending, submit_vars>>
       \/ Panic(IF step = "bind_image_memory"
                THEN "Unable to bind depth image memory" ELSE UnwrapFailed)

\* Lines 428-434: the requirements and the memory properties are whatever the
\* device reports; the required flag is DEVICE_LOCAL.
DepthFindMemorytype ==
    /\ DepthAt("find_memorytype_index")
    /\ \E req \in 0..1, prop \in BootMemoryProperties :
          IF find_memorytype_index(req, prop, MEMORY_DEVICE_LOCAL).some
          THEN /\ DepthSucceed("find_memorytype_index")
               /\ UNCHANGED <<fn_vars, renderer, panicked, device_vars, submit_vars>>
          ELSE Panic("Unable to find suitable memory index for depth image.")

CreateDepthImage ==
    \/ \E step \in {"create_image", "allocate_memory", "bind_image_memory"} :
          DepthDeviceCall(step)
    \/ DepthFindMemorytype

\* A create info without the SIGNALED flag.
fence_create_info_default == [flags |-> "empty"]

\* Lines 103-104.
fence_create_info == [flags |-> "SIGNALED"]

\* The state vkCreateFence gives a fence.
CreatedFence(info) == IF info.flags = "SIGNALED" THEN "signaled" ELSE "unsignaled"

\* Lines 106-111: the draw fence, then the setup fence.
CreateFence(step, fence) ==
    /\ NewAt(step)
    /\ \/ /\ Succeed(step, {fence})
          /\ fence_state' = [fence_state EXCEPT ![fence] = CreatedFence(fence_create_info)]
          /\ UNCHANGED <<fn_vars, depth_pc, renderer, panicked, cb_state, cb_commands,
                         pending, depth, submit_vars>>
       \/ Panic("Create fence failed.")

\* optimize_depth_image_layout handed the draw buffer and the draw fence.
OptimizeDepthImageLayoutCallOnDraw ==
    /\ NewAt("optimize_depth_image_layout")
    /\ frame["setup"].pc = "idle"
    /\ ncalls["setup"] = 0
    /\ frame' = [frame EXCEPT !["setup"] =
           [pc |-> ProtocolOrder[1],
            command_buffer |-> "draw_command_buffer",
            fence |-> "draw_commands_reuse_fence",
            wait_mask |-> <<>>, wait_semaphores |-> <<>>, signal_semaphores |-> <<>>,
            f |-> "layout_transition"]]
    /\ UNCHANGED <<fn_vars, new_vars, panicked, device_vars, ncalls, log>>

\* Lines 113-119 and 457-464: optimize_depth_image_layout calls the protocol on
\* the setup buffer and the setup fence, with empty semaphore and mask slices.
OptimizeDepthImageLayoutCall ==
    /\ NewAt("optimize_depth_image_layout")
    /\ frame["setup"].pc = "idle"
    /\ ncalls["setup"] = 0
    /\ frame' = [frame EXCEPT !["setup"] =
           [pc |-> ProtocolOrder[1],
            command_buffer |-> "setup_command_buffer",
            fence |-> "setup_commands_reuse_fence",
            wait_mask |-> <<>>, wait_semaphores |-> <<>>, signal_semaphores |-> <<>>,
            f |-> "layout_transition"]]
    /\ UNCHANGED <<fn_vars, new_vars, panicked, device_vars, ncalls, log>>

\* optimize_depth_image_layout returning only once the device has completed
\* the submission (a device_wait_idle after the submit).
OptimizeDepthImageLayoutReturnWhenIdle ==
    /\ NewAt("optimize_depth_image_layout")
    /\ frame["setup"].pc = "idle"
    /\ ncalls["setup"] = 1
    /\ ~InFlight("setup_command_buffer")
    /\ Succeed("optimize_depth_image_layout", {})
    /\ UNCHANGED <<fn_vars, depth_pc, renderer, panicked, device_vars, submit_vars>>

\* record_submit_commandbuffer has returned, and optimize_depth_image_layout with it.
OptimizeDepthImageLayoutReturn ==
    /\ NewAt("optimize_depth_image_layout")
    /\ frame["setup"].pc = "idle"
    /\ ncalls["setup"] = 1
    /\ Succeed("optimize_depth_image_layout", {})
    /\ UNCHANGED <<fn_vars, depth_pc, renderer, panicked, device_vars, submit_vars>>

\* Lines 121-134.
CreateDepthImageView ==
    /\ NewAt("create_depth_image_view")
    /\ \/ /\ Succeed("create_depth_image_view", {"depth_image_view"})
          /\ depth' = [depth EXCEPT !.view = TRUE]
          /\ UNCHANGED <<fn_vars, depth_pc, renderer, panicked, fence_state, cb_state,
                         cb_commands, pending, submit_vars>>
       \/ Panic(UnwrapFailed)

\* Lines 145-164: the locals named in Self { .. } move into the Renderer; the
\* others (the command buffers, the queue, the swapchain) are dropped.
ReturnSelf ==
    /\ NewAt("Self")
    /\ renderer' = Some(locals \cap RendererFields)
    /\ locals' = {}
    /\ boot' = Append(boot, "Self")
    /\ new_pc' = new_pc + 1
    /\ UNCHANGED <<fn_vars, depth_pc, panicked, device_vars, submit_vars>>

\* Lines 45-64: the owner drops the Renderer once its threads have made their
\* calls. The struct has no Drop implementation, and its fields are handles
\* and loaders that release nothing when dropped: no vkDestroy* or vkFreeMemory
\* call is issued, and what the device holds stays as it is.
DropRenderer ==
    /\ panicked = "none"
    /\ renderer.some
    /\ \A t \in Threads : frame[t].pc = "idle" /\ ncalls[t] = MaxCalls
    /\ renderer' = None
    /\ UNCHANGED <<fn_vars, new_pc, depth_pc, boot, locals, panicked, device_vars,
                   submit_vars>>

New ==
    \/ \E step \in ObjectSteps : CreateObject(step)
    \/ GetPhysicalDevice
    \/ NewSwapchain
    \/ CreateCommandBuffers
    \/ CreateDepthImage
    \/ CreateFence("create_fence_draw", "draw_commands_reuse_fence")
    \/ CreateFence("create_fence_setup", "setup_commands_reuse_fence")
    \/ OptimizeDepthImageLayoutCall
    \/ OptimizeDepthImageLayoutReturn
    \/ CreateDepthImageView
    \/ ReturnSelf

-----------------------------------------------------------------------------
(* The specifications                                                       *)

Init == MainInit /\ SelectIdle /\ MemIdle /\ SwapIdle

Next ==
    \/ New
    \/ \E t \in Threads : Submit(t)
    \/ \E s \in pending : DeviceCompletes(s)
    \/ DropRenderer

\* The program against the mock device.
Spec == Init /\ [][Next]_vars

MainIdle == UNCHANGED <<new_vars, panicked, device_vars, submit_vars>>

\* get_physical_device on every enumeration within the bounds.
InitSelect == MainInit /\ SelectInit /\ MemIdle /\ SwapIdle

NextSelect ==
    /\ SelectDevice
    /\ MainIdle
    /\ UNCHANGED <<memory_req, memory_prop, flags, memorytype_index,
                   surface_capabilities, present_modes, overflow_checks,
                   swapchain_create_info>>

SpecSelect == InitSelect /\ [][NextSelect]_vars

\* find_memorytype_index on every input within the bounds.
InitMem == MainInit /\ MemInit /\ SelectIdle /\ SwapIdle

NextMem ==
    /\ FindMemorytypeIndex
    /\ MainIdle
    /\ UNCHANGED <<pdevices, selection, surface_capabilities, present_modes,
                   overflow_checks, swapchain_create_info>>

SpecMem == InitMem /\ [][NextMem]_vars

\* create_swapchain's negotiation on every surface report within the bounds,
\* under both build profiles.
InitSwap == MainInit /\ SwapInit /\ SelectIdle /\ MemIdle

NextSwap ==
    /\ CreateSwapchain
    /\ MainIdle
    /\ UNCHANGED <<pdevices, selection, memory_req, memory_prop, flags,
                   memorytype_index>>

SpecSwap == InitSwap /\ [][NextSwap]_vars

\* A step in which no device call fails.
NoFailure == panicked' = "none"

\* The program with its threads and the device running on: a thread inside
\* Renderer::new or the protocol executes its next statement when that statement
\* can return (nothing obliges a device call to fail), a caller that has calls
\* left makes them, and the device completes what it has accepted.
LiveSpec ==
    /\ Spec
    /\ WF_vars(New /\ NoFailure)
    /\ \A t \in Threads : WF_vars(Submit(t) /\ NoFailure)
    /\ WF_vars(\E s \in pending : DeviceCompletes(s))

-----------------------------------------------------------------------------
(* The submission protocol's claims                                         *)

\* The cycle of device calls that C1 states.
CycleCalls ==
    <<"wait_for_fences", "reset_fences", "reset_command_buffer",
      "begin_command_buffer", "f", "end_command_buffer", "queue_submit">>

\* The object the i-th call of a cycle must name first: the fence or the buffer.
CycleTarget(t, i) == IF i \in {1, 2} THEN FenceOf(t) ELSE CommandBufferOf(t)

\* C1: the calls each thread has issued are whole cycles of wait-for-fence,
\* reset-fence, reset-command-buffer, begin, callback, end, queue-submit on the
\* thread's buffer and fence, the submit naming that fence as completion fence,
\* followed by the part of a cycle a call in progress has issued so far; a call
\* that has returned has issued a whole cycle.
C1_CallOrder ==
    \A t \in Threads :
        /\ \A i \in 1..Len(log[t]) :
              LET k == ((i - 1) % 7) + 1
              IN  /\ log[t][i].call = CycleCalls[k]
                  /\ log[t][i].args[1] = CycleTarget(t, k)
                  /\ k = 7 => log[t][i].args[2] = log[t][i - 6].args[1]
        /\ frame[t].pc = "idle" => Len(log[t]) = 7 * ncalls[t]
        /\ frame[t].pc # "idle" =>
              /\ Len(log[t]) \div 7 = ncalls[t]
              /\ frame[t].pc = CycleCalls[(Len(log[t]) % 7) + 1]

\* A thread has returned from its second call: two whole cycles are logged.
C1_Witness ==
    \E t \in Threads :
        /\ ncalls[t] = 2
        /\ frame[t].pc = "idle"
        /\ Len(log[t]) = 14
        /\ log[t][14].call = "queue_submit"

\* The statements that reset or record a command buffer.
RecordingCalls ==
    {"reset_command_buffer", "begin_command_buffer", "f", "end_command_buffer"}

\* C2: a thread that is about to reset or record its command buffer finds it
\* idle: no submission of that buffer is pending on the device.
C2_RecordOnlyIdle ==
    \A t \in Threads :
        frame[t].pc \in RecordingCalls => ~InFlight(frame[t].command_buffer)

\* The second recording on the setup buffer is under way, after a first
\* submission that the device has completed.
C2_Witness ==
    /\ ncalls["setup"] = 1
    /\ frame["setup"].pc = "begin_command_buffer"
    /\ cb_state["setup_command_buffer"] = "initial"
    /\ fence_state["setup_commands_reuse_fence"] = "unsignaled"

\* C3: with the device completing every submission it accepted, each thread
\* returns from two calls on its buffer and fence (so both passed the fence wait
\* and reached the queue submission), unless a device call failed.
C3_TwoSubmitsNoDeadlock ==
    \A t \in Threads : <>(ncalls[t] >= 2 \/ panicked # "none")

\* Both threads have returned from their second call.
C3_Witness ==
    /\ panicked = "none"
    /\ ncalls["setup"] = 2
    /\ ncalls["draw"] = 2

-----------------------------------------------------------------------------
(* The depth image's claims                                                 *)

\* Renderer::new, or the Renderer it returned, holds the depth image's handle.
HoldsDepthImage ==
    "depth_image" \in locals \/ (renderer.some /\ "depth_image" \in renderer.value)

\* C10: the depth image's handle is held outside create_depth_image only after
\* the image was created, its memory allocated and bound; and when a statement
\* of create_depth_image has failed, no handle is held and no Renderer exists.
C10_DepthImageAtomic ==
    /\ HoldsDepthImage => depth.image /\ depth.memory /\ depth.bound >= 1
    /\ (panicked # "none" /\ new_pc <= Len(BootOrder)
          /\ BootOrder[new_pc] = "create_depth_image") =>
          ~HoldsDepthImage /\ ~renderer.some

\* The bind has failed on an image that was created and whose memory was
\* allocated.
C10_Witness ==
    /\ panicked = "Unable to bind depth image memory"
    /\ depth.image /\ depth.memory /\ depth.bound = 0
    /\ ~HoldsDepthImage

\* The positions of `step` among the statements Renderer::new has executed.
Executed(step) == {i \in 1..Len(boot) : boot[i] = step}

\* A command that names the depth image is in a command buffer or in a
\* submission the device holds.
DepthImageInCommands ==
    \/ \E b \in CommandBuffers : \E i \in 1..Len(cb_commands[b]) :
           cb_commands[b][i].cmd = "cmd_pipeline_barrier"
    \/ \E s \in pending : \E i \in 1..Len(s.commands) :
           s.commands[i].cmd = "cmd_pipeline_barrier"

\* C16: memory is bound to the depth image at most once, and exactly once by
\* the time the image is used: whenever the layout transition has been called,
\* its barrier is recorded or submitted, the depth image view exists or the
\* Renderer exists, the one bind has happened, and it precedes the layout
\* transition's return and the view's creation among the executed statements.
C16_BoundOnceBeforeUse ==
    /\ depth.bound <= 1
    /\ Cardinality(Executed("bind_image_memory")) = depth.bound
    /\ (\/ frame["setup"].f = "layout_transition"
        \/ DepthImageInCommands
        \/ depth.layout # "UNDEFINED"
        \/ depth.view
        \/ renderer.some) => depth.bound = 1
    /\ \A i \in Executed("optimize_depth_image_layout")
                 \cup Executed("create_depth_image_view") :
           \E j \in Executed("bind_image_memory") : j < i

\* The depth image view has been created on the image whose layout the device
\* has transitioned, after the one bind.
C16_Witness ==
    /\ depth.bound = 1
    /\ depth.view
    /\ depth.layout = "DEPTH_STENCIL_ATTACHMENT_OPTIMAL"
    /\ Executed("bind_image_memory") = {14}

-----------------------------------------------------------------------------
(* Renderer::new's claims                                                   *)

\* Every statement of a Renderer::new that runs to its end, in program order,
\* with the statements of create_depth_image in place.
FullBoot ==
    SubSeq(BootOrder, 1, 10) \o DepthImageOrder \o SubSeq(BootOrder, 11, Len(BootOrder))

IsPrefix(s, t) == Len(s) <= Len(t) /\ s = SubSeq(t, 1, Len(s))

\* Renderer::new failed: a statement panicked before Self { .. } was reached.
NewFailed == panicked # "none" /\ new_pc <= Len(BootOrder)

\* C11: the statements Renderer::new has executed are a prefix of its program
\* order, each executed once; a Renderer exists only when all of them have
\* succeeded, and then it holds every field; and once a statement has failed no
\* statement executes, none is retried and no Renderer comes to exist.
C11_AllOrNothing ==
    /\ [](/\ IsPrefix(boot, FullBoot)
          /\ renderer.some => (boot = FullBoot /\ renderer.value = RendererFields)
          /\ NewFailed => ~renderer.some)
    /\ [][NewFailed => UNCHANGED <<new_vars, device_vars, submit_vars, panicked>>]_vars

\* The swapchain's creation has failed after the device was created: nothing
\* later has run.
C11_Witness ==
    /\ panicked = UnwrapFailed
    /\ new_pc <= Len(BootOrder) /\ BootOrder[new_pc] = "create_swapchain"
    /\ boot = SubSeq(BootOrder, 1, 6)
    /\ "device" \in locals
    /\ ~renderer.some

\* Every execution of statement b comes after an execution of statement a.
Before(a, b) == \A j \in Executed(b) : \E i \in Executed(a) : i < j

\* The stages up to the swapchain, each before the next.
StagesToSwapchain ==
    /\ Before("create_instance", "create_surface")
    /\ Before("create_surface", "get_physical_device")
    /\ Before("get_physical_device", "create_device")
    /\ Before("create_device", "create_swapchain")
    /\ Before("create_swapchain", "create_command_pool")
    /\ Before("create_command_pool", "create_command_buffers")

\* The layout transition has been submitted to the queue.
TransitionSubmitted ==
    \E i \in 1..Len(log["setup"]) : log["setup"][i].call = "queue_submit"

\* The command pool and both command buffers exist.
PoolAndBuffersExist ==
    /\ Executed("create_command_pool") # {}
    /\ \A b \in CommandBuffers : cb_state[b] # "unallocated"

BothFencesExist == \A f \in Fences : fence_state[f] # "none"

\* C17 as stated: the stages run in the order instance, surface, device
\* selection, device, swapchain, command pool, command buffers, and the pool,
\* both buffers and both fences exist before the depth image is created and
\* before the layout transition is submitted.
C17_StageOrder ==
    /\ StagesToSwapchain
    /\ depth.image => PoolAndBuffersExist /\ BothFencesExist
    /\ TransitionSubmitted => PoolAndBuffersExist /\ BothFencesExist

\* C17 with the fences where the code creates them: the stages run in that
\* order, the pool and both buffers exist before the depth image is created,
\* both fences are created after create_depth_image has returned, and pool,
\* buffers and fences all exist before the layout transition is called and
\* submitted.
C17_StageOrderFencesAfterDepth ==
    /\ StagesToSwapchain
    /\ depth.image => PoolAndBuffersExist
    /\ Before("create_depth_image", "create_fence_draw")
    /\ Before("create_fence_draw", "create_fence_setup")
    /\ (frame["setup"].pc # "idle" \/ TransitionSubmitted) =>
           PoolAndBuffersExist /\ BothFencesExist

\* During construction the layout transition has been submitted on the setup
\* buffer, with the fences created after the depth image.
C17_Witness ==
    /\ new_pc <= Len(BootOrder) /\ BootOrder[new_pc] = "optimize_depth_image_layout"
    /\ InFlight("setup_command_buffer")
    /\ TransitionSubmitted
    /\ Executed("create_depth_image") = {15}
    /\ Executed("create_fence_draw") = {16}
    /\ Executed("create_fence_setup") = {17}

-----------------------------------------------------------------------------
(* The submission protocol's failures                                       *)

\* The statement of record_submit_commandbuffer whose expect() carries `message`.
FailedCall(message) ==
    CASE message = "Wait for fence failed." -> "wait_for_fences"
      [] message = "Reset fences failed." -> "reset_fences"
      [] message = "Reset command buffer failed." -> "reset_command_buffer"
      [] message = "Begin commandbuffer" -> "begin_command_buffer"
      [] message = "End commandbuffer" -> "end_command_buffer"
      [] message = "queue submit failed." -> "queue_submit"
      [] OTHER -> "none"

\* The device calls thread t has issued in the call it is in.
IssuedInCall(t) == SubSeq(log[t], 7 * ncalls[t] + 1, Len(log[t]))

\* C12: when a statement of the protocol has failed, a call stands at that
\* statement, having issued exactly the statements before it and so no queue
\* submission; and from then on no statement is issued, no call advances or
\* returns, and nothing is submitted to the queue.
C12_ProtocolFailureFatal ==
    /\ [](FailedCall(panicked) # "none" =>
            \E t \in Threads :
                /\ frame[t].pc = FailedCall(panicked)
                /\ Len(IssuedInCall(t)) = IndexOf(ProtocolOrder, frame[t].pc, 1) - 1
                /\ \A i \in 1..Len(IssuedInCall(t)) :
                      /\ IssuedInCall(t)[i].call = ProtocolOrder[i]
                      /\ IssuedInCall(t)[i].call # "queue_submit")
    /\ [][FailedCall(panicked) # "none" =>
            /\ UNCHANGED <<log, frame, ncalls, pending, cb_state>>
            /\ panicked' = panicked]_vars

\* Ending the recording of the draw buffer has failed: the buffer is still
\* recording and was not submitted.
C12_Witness ==
    /\ panicked = "End commandbuffer"
    /\ frame["draw"].pc = "end_command_buffer"
    /\ cb_state["draw_command_buffer"] = "recording"
    /\ ~InFlight("draw_command_buffer")
    /\ Len(IssuedInCall("draw")) = 5

-----------------------------------------------------------------------------
(* The two threads                                                          *)

\* The command buffer and the fence of each thread's pair.
PairOf(t) ==
    IF t = "setup"
    THEN [command_buffer |-> "setup_command_buffer",
          fence |-> "setup_commands_reuse_fence"]
    ELSE [command_buffer |-> "draw_command_buffer",
          fence |-> "draw_commands_reuse_fence"]

\* Thread t takes a step of the protocol.
Steps(t) == log'[t] # log[t]

\* C13: with the two threads' calls interleaved, a statement one thread issues
\* names that thread's buffer or fence, leaves the other pair's buffer, its
\* recorded commands and its fence as they were, and submits only its own buffer
\* with its own fence; and a buffer that is being recorded is never in flight.
C13_PairsIndependent ==
    /\ [](\A b \in CommandBuffers : cb_state[b] = "recording" => ~InFlight(b))
    /\ [][\A t \in Threads : Steps(t) =>
            LET other == PairOf(CHOOSE u \in Threads : u # t)
                issued == log'[t][Len(log'[t])]
            IN  /\ issued.args[1] \in {PairOf(t).command_buffer, PairOf(t).fence}
                /\ cb_state'[other.command_buffer] = cb_state[other.command_buffer]
                /\ cb_commands'[other.command_buffer] =
                       cb_commands[other.command_buffer]
                /\ fence_state'[other.fence] = fence_state[other.fence]
                /\ \A s \in pending' \ pending :
                      /\ s.command_buffer = PairOf(t).command_buffer
                      /\ s.fence = PairOf(t).fence]_vars

\* Both threads are recording at once, each its own buffer with its own commands.
C13_Witness ==
    /\ frame["setup"].pc = "end_command_buffer"
    /\ frame["draw"].pc = "end_command_buffer"
    /\ cb_state["setup_command_buffer"] = "recording"
    /\ cb_state["draw_command_buffer"] = "recording"
    /\ cb_commands["draw_command_buffer"] = <<[cmd |-> "draw"]>>

\* C18: the only statement of a call that waits is the first one, the wait on
\* the fence, which goes on exactly when the fence is signaled; every later
\* statement, the queue submission included, goes on whatever the device has
\* completed. The call returns in the step of the queue submission, with its
\* buffer in flight and its fence unsignaled, and Renderer::new goes on after
\* the layout transition's call without waiting for the device.
C18_SubmitDoesNotWait ==
    /\ [](\A t \in Threads :
            (panicked = "none" /\ frame[t].pc # "idle") =>
                ((ENABLED (Submit(t) /\ NoFailure)) <=>
                    (frame[t].pc = "wait_for_fences" =>
                        fence_state[frame[t].fence] = "signaled")))
    /\ []((/\ panicked = "none"
           /\ new_pc <= Len(BootOrder)
           /\ frame["setup"].pc = "idle"
           /\ ncalls["setup"] >= 1) => ENABLED (New /\ NoFailure))
    /\ [][\A t \in Threads :
            ncalls'[t] # ncalls[t] =>
                /\ frame[t].pc = "queue_submit"
                /\ \E s \in pending' : s.command_buffer = PairOf(t).command_buffer
                /\ fence_state'[PairOf(t).fence] = "unsignaled"]_vars

\* Renderer::new has returned the Renderer while the layout transition is in
\* flight: the setup fence is unsignaled and the depth image's layout is still
\* UNDEFINED.
C18_Witness ==
    /\ renderer.some
    /\ ncalls["setup"] = 1
    /\ InFlight("setup_command_buffer")
    /\ fence_state["setup_commands_reuse_fence"] = "unsignaled"
    /\ depth.layout = "UNDEFINED"

\* The one command of the layout transition.
LayoutBarrier ==
    [cmd |-> "cmd_pipeline_barrier", image |-> "depth_image",
     old_layout |-> "UNDEFINED", new_layout |-> "DEPTH_STENCIL_ATTACHMENT_OPTIMAL"]

\* Renderer::new has not returned.
Constructing == new_pc <= Len(BootOrder)

\* C19: during construction optimize_depth_image_layout runs once and makes
\* one call of the protocol, on the setup buffer and the setup fence and on no
\* other; its queue submission carries empty wait-semaphore, wait-mask and
\* signal-semaphore lists; and what it records and submits is exactly one
\* pipeline barrier taking the depth image from UNDEFINED to
\* DEPTH_STENCIL_ATTACHMENT_OPTIMAL.
C19_OneShotLayoutTransition ==
    /\ Cardinality(Executed("optimize_depth_image_layout")) <= 1
    /\ renderer.some => Cardinality(Executed("optimize_depth_image_layout")) = 1
    /\ Executed("optimize_depth_image_layout") # {} =>
           Len(log["setup"]) >= 7 /\ ncalls["setup"] >= 1
    /\ Constructing =>
           /\ log["draw"] = <<>>
           /\ Len(log["setup"]) <= 7
           /\ ncalls["setup"] <= 1
           /\ frame["setup"].pc # "idle" =>
                  /\ frame["setup"].command_buffer = "setup_command_buffer"
                  /\ frame["setup"].fence = "setup_commands_reuse_fence"
           /\ cb_commands["draw_command_buffer"] = <<>>
    /\ \A i \in 1..Len(log["setup"]) :
           i <= 7 =>
              /\ log["setup"][i].args[1] \in
                     {"setup_command_buffer", "setup_commands_reuse_fence"}
              /\ i = 7 => log["setup"][i] =
                     [call |-> "queue_submit",
                      args |-> <<"setup_command_buffer", "setup_commands_reuse_fence",
                                 <<>>, <<>>, <<>> >>]
    /\ Len(log["setup"]) \in 5..9 =>
           cb_commands["setup_command_buffer"] = <<LayoutBarrier>>
    /\ Len(log["setup"]) \in 7..13 =>
           \A s \in pending :
              s.command_buffer = "setup_command_buffer" =>
                  s.commands = <<LayoutBarrier>> /\ depth.layout = "UNDEFINED"
    /\ depth.layout \in {"UNDEFINED", "DEPTH_STENCIL_ATTACHMENT_OPTIMAL"}
    /\ depth.layout # "UNDEFINED" => Len(log["setup"]) >= 7

\* During construction the one barrier has been submitted on the setup buffer
\* with the setup fence and no semaphores.
C19_Witness ==
    /\ Constructing
    /\ BootOrder[new_pc] = "optimize_depth_image_layout"
    /\ ncalls["setup"] = 1
    /\ Len(log["setup"]) = 7
    /\ log["setup"][7].args[3] = <<>>
    /\ pending = {[command_buffer |-> "setup_command_buffer",
                   fence |-> "setup_commands_reuse_fence",
                   commands |-> <<LayoutBarrier>>]}

\* C20: a fence that exists and that its thread has not yet reset is signaled,
\* with the thread's buffer never submitted; so the wait of a thread's first
\* call returns with no submission having been made.
C20_FirstWaitPasses ==
    \A t \in Threads :
        /\ (fence_state[PairOf(t).fence] # "none" /\ Len(log[t]) <= 1) =>
              /\ fence_state[PairOf(t).fence] = "signaled"
              /\ cb_state[PairOf(t).command_buffer] = "initial"
              /\ ~InFlight(PairOf(t).command_buffer)
        /\ (panicked = "none" /\ ncalls[t] = 0 /\ frame[t].pc = "wait_for_fences") =>
              ENABLED (WaitForFences(t) /\ NoFailure)

\* The draw thread's first call has passed its wait on a buffer that was never
\* submitted.
C20_Witness ==
    /\ ncalls["draw"] = 0
    /\ frame["draw"].pc = "reset_fences"
    /\ Len(log["draw"]) = 1
    /\ log["draw"][1].call = "wait_for_fences"
    /\ cb_state["draw_command_buffer"] = "initial"
    /\ fence_state["draw_commands_reuse_fence"] = "signaled"

-----------------------------------------------------------------------------
(* Teardown                                                                 *)

\* The Renderer that Renderer::new returned has been dropped.
RendererDropped == new_pc > Len(BootOrder) /\ ~renderer.some

\* C15: at teardown the depth resource is released, the view before the image
\* and the image before its memory: once the Renderer is gone the device holds
\* none of the three, the image is destroyed only after the view, and the
\* memory is freed only after the image.
C15_ReleaseOrder ==
    /\ [](RendererDropped => ~depth.view /\ ~depth.image /\ ~depth.memory)
    /\ [][(depth.image /\ ~depth'.image) => ~depth.view]_vars
    /\ [][(depth.memory /\ ~depth'.memory) => ~depth.image]_vars

-----------------------------------------------------------------------------
(* The buffer/fence pairs                                                   *)

\* Thread t issues its queue submission in this step.
Submits(t) ==
    /\ frame[t].pc = "queue_submit"
    /\ Steps(t)
    /\ log'[t][Len(log'[t])].call = "queue_submit"

InFlightNext(cb) == \E s \in pending' : s.command_buffer = cb

\* C21: over each thread's calls on its pair, the buffer is in flight only
\* while the pair's fence is unsignaled; it becomes in flight only in the step
\* of the thread's queue submission and stops being in flight only in the step
\* in which the fence becomes signaled; and the fence of every submission is
\* unsignaled and on no other pending submission when the device receives it.
C21_InFlightWhileUnsignaled ==
    /\ [](\A t \in Threads :
            InFlight(PairOf(t).command_buffer) =>
                fence_state[PairOf(t).fence] = "unsignaled")
    /\ [][\A t \in Threads :
            LET cb == PairOf(t).command_buffer
                fence == PairOf(t).fence
            IN  /\ (~InFlight(cb) /\ InFlightNext(cb)) => Submits(t)
                /\ (InFlight(cb) /\ ~InFlightNext(cb)) =>
                      /\ fence_state[fence] = "unsignaled"
                      /\ fence_state'[fence] = "signaled"
                /\ Submits(t) =>
                      /\ ~InFlight(cb) /\ InFlightNext(cb)
                      /\ fence_state[fence] = "unsignaled"
                      /\ \A s \in pending : s.fence # fence
                      /\ \A s \in pending' \ pending :
                            s.fence = fence /\ s.command_buffer = cb]_vars

\* The draw buffer is in flight from the second call on its pair, its fence
\* unsignaled.
C21_Witness ==
    /\ ncalls["draw"] = 2
    /\ InFlight("draw_command_buffer")
    /\ cb_state["draw_command_buffer"] = "pending"
    /\ fence_state["draw_commands_reuse_fence"] = "unsignaled"

\* The draw thread has issued no statement.
DrawUntouched == log["draw"] = <<>>

\* C22: a statement of a call changes no command buffer other than the call's
\* and no fence other than the call's; and until the draw thread's first
\* statement, so throughout construction and when it completes, the draw buffer
\* has no recorded command and no submission, no statement has named the draw
\* buffer or the draw fence, and the draw fence, once created, is signaled.
C22_OtherPairUnchanged ==
    /\ [][\A t \in Threads : Steps(t) =>
            /\ \A b \in CommandBuffers \ {frame[t].command_buffer} :
                  cb_state'[b] = cb_state[b] /\ cb_commands'[b] = cb_commands[b]
            /\ \A f \in Fences \ {frame[t].fence} : fence_state'[f] = fence_state[f]
            /\ \A s \in pending' \ pending :
                  s.command_buffer = frame[t].command_buffer /\ s.fence = frame[t].fence]_vars
    /\ [](DrawUntouched =>
            /\ cb_state["draw_command_buffer"] \in {"unallocated", "initial"}
            /\ cb_commands["draw_command_buffer"] = <<>>
            /\ fence_state["draw_commands_reuse_fence"] \in {"none", "signaled"}
            /\ \A s \in pending :
                  /\ s.command_buffer = "setup_command_buffer"
                  /\ s.fence = "setup_commands_reuse_fence"
            /\ \A i \in 1..Len(log["setup"]) :
                  /\ log["setup"][i].args[1] \in
                         {"setup_command_buffer", "setup_commands_reuse_fence"}
                  /\ log["setup"][i].call = "queue_submit" =>
                         log["setup"][i].args[2] = "setup_commands_reuse_fence")
    /\ []((renderer.some /\ DrawUntouched) =>
            /\ cb_state["draw_command_buffer"] = "initial"
            /\ fence_state["draw_commands_reuse_fence"] = "signaled")

\* Construction has completed after its one submission on the setup pair: the
\* draw buffer is in its initial state and the draw fence signaled.
C22_Witness ==
    /\ renderer.some
    /\ DrawUntouched
    /\ frame["draw"].pc = "idle"
    /\ Len(log["setup"]) = 7
    /\ log["setup"][7].call = "queue_submit"
    /\ cb_state["draw_command_buffer"] = "initial"
    /\ fence_state["draw_commands_reuse_fence"] = "signaled"

=============================================================================
